---- MODULE Spec2Model ----
(***************************************************************************)
(* A model of mbooks: the order book merger (src/src/merger.rs), the       *)
(* fan-out gRPC server and its tasks (src/src/server.rs), the exchange     *)
(* adapters (src/src/binance.rs, src/src/bitstamp.rs) and the entrypoint   *)
(* (src/src/main.rs).                                                      *)
(*                                                                         *)
(* Spec            the merger alone, on full Level data.                   *)
(* ServerSpec      the tasks joined by run_server, the subscribers and the *)
(*                 entrypoint; a Summary is identified by its position in  *)
(*                 the merger's emission sequence (the fan-out only clones *)
(*                 and forwards it).                                       *)
(* FairServerSpec  ServerSpec with weak fairness on every task's own steps *)
(*                 (the tokio runtime polls every ready task).             *)
(* FairSteadySpec  the same tasks and fairness while nothing asks them to  *)
(*                 stop: no interrupt, both websockets open.               *)
(* AdapterSpec     run_binance and run_bitstamp by themselves, from the    *)
(*                 handshake on, with frames of every kind.                *)
(* EntrySpec       main from its arguments on: symbol and address parsing, *)
(*                 the handshakes, the joins and the exit.                 *)
(* FairEntrySpec   EntrySpec with weak fairness on every task's own steps. *)
(* TypesSpec       Asset::try_from, Symbol::try_from and the adapters'     *)
(*                 symbol_to_string applied to texts in every letter case. *)
(* DrainSpec       the merger, on full Level data, once both adapters have *)
(*                 returned: it empties its input channel and returns.     *)
(* TruncateSpec    run_bitstamp's closure on data frames with more entries *)
(*                 a side than the depth.                                  *)
(***************************************************************************)
EXTENDS Integers, Sequences, FiniteSets, TLC

\* ------------------------------------------------------------------ bounds

\* Longest side (bids or asks) of one adapter Summary.
MaxLen == 2
\* Prices are 1..MaxPrice.
MaxPrice == 2
\* Quantities are 1..MaxQty.
MaxQty == 1
\* The merger's depth is drawn from 0..MaxDepth.
MaxDepth == 2
\* Summaries the merger receives in one run.
MaxSteps == 3
\* Subscribers (book_summary requests) in one run of the server.
MaxSubs == 2
\* Summaries the merger emits in one run of the server.
MaxEmit == 5
\* Summaries queued on the adapters' channel to the merger.
MaxPending == 1

\* Pieces a --symbol text is put together from.
MaxPieces == 3
\* Strings in one raw level of a frame, and raw levels on one side of a frame.
MaxFields == 2
MaxRawLen == 1
\* Frames handed to one adapter's closure.
MaxFrames == 2
\* Summaries queued on the merger's input when its senders are dropped.
MaxQueued == 2
\* Entries on one side of a bitstamp data frame.
MaxDataLen == 3

\* mpsc::channel(4): the capacity of a subscriber's channel (server.rs:138).
Capacity == 4

VARIABLES
    \* OrderbookMerger (merger.rs:27-34)
    bids,           \* self.bids
    asks,           \* self.asks
    depth,          \* self.depth
    received,       \* the Summary taken from summary_receiver by the last step
    nReceived,      \* how many Summaries the merger has taken from its input
    nSent,          \* how many Summaries it has sent on summary_sender
    lastSent,       \* the last orderbook::Summary sent on summary_sender
    mergerPanicked, \* the merger task has panicked (index out of range, unwrap of None)
    \* history: for each exchange, its most recent non-empty Summary
    latest,
    \* history: the last step received the same Summary as the step before it
    replayed,
    \* the shutdown broadcast channel and the signal listener (main.rs:72-89)
    shutdownSent,   \* a shutdown message has been broadcast
    signalTask,     \* the spawned signal listener: "waiting" or "done"
    \* run_server (server.rs:216-253)
    pcAdapter,      \* per adapter: "unstarted", "connecting", "reading" (in
                    \* for_each), "done" (returned Ok), "failed" (returned Err)
                    \* or "cancelled" (dropped by a try_join! that returned Err)
    inQueue,        \* Summaries queued on the adapters' unbounded channel
    pcMerger,       \* OrderbookMerger::start: "unstarted", "running", "done" or
                    \* "cancelled"
    nEmitted,       \* Summaries the merger has emitted; the k-th is identified by k
    grpcQueue,      \* the merger's unbounded channel to listen_summaries
    \* listen_summaries, the broadcaster (server.rs:93-127)
    pcB,            \* "select", "send" (in the pass, holding the lock) or "done"
    bSummary,       \* the Summary of the pass in progress (0: none)
    bIdx,           \* the position of the for loop in it_targets
    bResp,          \* resp: the targets kept so far in the pass
    \* listen_clients_to_connect, the registrar (server.rs:66-90)
    pcR,            \* "select", "lock" (awaiting targets.lock()), "done"
    rPending,       \* client_to_connect: the sender about to be pushed (0: none)
    regQueue,       \* the registration channel (clients_to_connect)
    targets,        \* the Vec behind the targets mutex
    lock,           \* who holds the targets mutex: "free" or "broadcaster"
    pcRpc,          \* run_grpc_server's tonic server: "serving", "done", "failed"
                    \* (run_grpc_server returned Err) or "cancelled"
    \* subscribers: the receiving ends handed out by book_summary
    client,         \* "idle", "subscribed", "rejected" or "gone" (receiver dropped)
    chan,           \* per subscriber: the Summaries buffered in its channel
    got,            \* per subscriber: the Summaries its stream has yielded, in order
    pcMain,         \* main: "parse_cli", "run_server", "final_recv", "exited"
                    \* (returned Ok), "failed" (returned Err) or "panicked";
                    \* "awaiting_adapters" for a caller of the adapters alone
    \* startup and the adapters' frames (main.rs:92-98, binance.rs, bitstamp.rs)
    symbolText,     \* the --symbol argument, a sequence of characters
    symbol,         \* the result of Symbol::try_from on it
    addressOk,      \* whether the --address argument parses as a socket address
    lastKind,       \* per adapter: the kind of the last frame its closure was given
    adapterLog,     \* per adapter: what its last step did with the frame
    rxDropped,      \* the receiver of the adapters' channel has been dropped
    framesRead,     \* per adapter: how many frames its closure has been given
    \* the conversions of types.rs and of the adapters, applied to a text
    typeText,       \* the text handed to the conversions
    assetResult,    \* the result of Asset::try_from on it
    symbolResult,   \* the result of Symbol::try_from on it
    formatted,      \* per adapter: symbol_to_string of the parsed Symbol
    dataFrame,      \* the data frame handed to bitstamp's closure
    \* the merger's input channel with what it carries
    inputQueue,     \* the Summaries queued on summary_receiver, with their exchange
    inputSent       \* history: every Summary sent on it, in the order sent

mergerVars == <<bids, asks, depth, received, nReceived, nSent, lastSent,
                mergerPanicked, latest, replayed>>

serverVars == <<shutdownSent, signalTask, pcAdapter, inQueue, pcMerger, nEmitted,
                grpcQueue, pcB, bSummary, bIdx, bResp, pcR, rPending, regQueue,
                targets, lock, pcRpc, client, chan, got, pcMain>>

entryVars == <<symbolText, symbol, addressOk, lastKind, adapterLog, rxDropped>>

typesVars == <<typeText, assetResult, symbolResult, formatted, dataFrame>>

drainVars == <<inputQueue, inputSent>>

probeVars == <<framesRead, typesVars, drainVars>>

vars == <<mergerVars, serverVars, entryVars, probeVars>>

\* ------------------------------------------------------------ domain model

Exchanges == {"binance", "bitstamp"}
Prices == 1..MaxPrice
Quantities == 1..MaxQty

\* types::Level
Level(e, p, q) == [exchange |-> e, price |-> p, quantity |-> q]

LevelsOf(e) == {Level(e, p, q) : p \in Prices, q \in Quantities}

\* Every sequence over S of length at most n.
SeqsUpTo(S, n) == UNION {[1..k -> S] : k \in 0..n}

\* The elements of a sequence.
Range(seq) == {seq[i] : i \in 1..Len(seq)}

\* types::Summary
Summary(b, a) == [bids |-> b, asks |-> a]

EmptySummary == Summary(<<>>, <<>>)

\* What one adapter can send: both sides carry its own exchange tag
\* (binance.rs:41-55, bitstamp.rs:46-60); the order is the exchange's.
AdapterSummaries(e) ==
    {Summary(b, a) : b \in SeqsUpTo(LevelsOf(e), MaxLen),
                     a \in SeqsUpTo(LevelsOf(e), MaxLen)}

\* f64::NAN, and a finite spread.
NaN == [nan |-> TRUE, value |-> 0]
Finite(x) == [nan |-> FALSE, value |-> x]

\* A spread taken the wrong way round: first bid minus first ask.
spreadBidMinusAsk(s) ==
    IF s.asks = <<>> \/ s.bids = <<>>
    THEN NaN
    ELSE Finite(s.bids[1].price - s.asks[1].price)

\* Summary::spread
spread(s) ==
    IF s.asks = <<>> \/ s.bids = <<>>
    THEN NaN
    ELSE Finite(s.asks[1].price - s.bids[1].price)

\* Into<orderbook::Level> for &Level: quantity is renamed amount.
WireLevel(l) == [exchange |-> l.exchange, price |-> l.price, amount |-> l.quantity]

\* Into<orderbook::Summary> for Summary
WireSummary(s) ==
    [spread |-> spread(s),
     bids |-> [i \in 1..Len(s.bids) |-> WireLevel(s.bids[i])],
     asks |-> [i \in 1..Len(s.asks) |-> WireLevel(s.asks[i])]]

\* ------------------------------------------------------------------ merger

\* A take that keeps the last n elements.
TakeLast(seq, n) ==
    SubSeq(seq, (IF n < Len(seq) THEN Len(seq) - n ELSE 0) + 1, Len(seq))

\* A truncation that keeps every level.
TakeAll(seq, n) == seq

\* iter().take(n)
Take(seq, n) == SubSeq(seq, 1, IF n < Len(seq) THEN n ELSE Len(seq))

\* A summary that keeps one level too many on each side.
summaryOffByOne(b, a, d) == Summary(Take(b, d + 1), Take(a, d + 1))

\* OrderbookMerger::summary
summary(b, a, d) == Summary(Take(b, d), Take(a, d))

\* The placeholder process_summary_asks_bids fills resp with.
Placeholder == [exchange |-> "", price |-> 0, quantity |-> 0]

\* A count that finds no level of the exchange.
CountExchangeZero(seq, e) == 0

\* iter().filter(|x| x.exchange == exchange).count()
RECURSIVE CountExchange(_, _)
CountExchange(seq, e) ==
    IF seq = <<>> THEN 0
    ELSE (IF seq[1].exchange = e THEN 1 ELSE 0) + CountExchange(Tail(seq), e)

\* std::mem::swap(&mut resp[idx_resp], ..): a write at idx_resp (0-based);
\* an index past the end panics.
SwapInto(st, x) ==
    IF st.idx_resp < Len(st.resp)
    THEN [st EXCEPT !.resp[st.idx_resp + 1] = x, !.idx_resp = @ + 1]
    ELSE [st EXCEPT !.panic = TRUE]

\* A purge that removes nothing.
IsOutdatedNever(level, exchange) == FALSE

\* A purge that removes the levels of the other exchanges.
IsOutdatedOthers(level, exchange) == level.exchange # exchange

\* "Ignoring outdated information already in the orderbook for this
\* exchange" (merger.rs:161, 179): an existing level of the source exchange.
IsOutdated(level, exchange) == level.exchange = exchange

\* A comparison that forgets the multiplier: bids are merged as asks are.
ExistingFirstNoMultiplier(existing, incoming, multiplier) ==
    existing.price < incoming.price

\* The comparison of merger.rs:166: the existing level goes first only when
\* it is strictly better (multiplier -1.0 for bids, 1.0 for asks).
ExistingFirst(existing, incoming, multiplier) ==
    existing.price * multiplier < incoming.price * multiplier

\* The three while loops of process_summary_asks_bids, one iteration per
\* unfolding; st holds idx_asks_bids, idx_summary, idx_resp and resp.
RECURSIVE MergeLoops(_, _, _, _, _)
MergeLoops(st, summ, book, exchange, multiplier) ==
    IF st.panic THEN st
    ELSE IF st.idx_asks_bids < Len(book) /\ st.idx_summary < Len(summ)
    THEN \* first loop (merger.rs:159-175)
        IF IsOutdated(book[st.idx_asks_bids + 1], exchange)
        THEN MergeLoops([st EXCEPT !.idx_asks_bids = @ + 1],
                        summ, book, exchange, multiplier)
        ELSE IF ExistingFirst(book[st.idx_asks_bids + 1],
                              summ[st.idx_summary + 1], multiplier)
        THEN MergeLoops([SwapInto(st, book[st.idx_asks_bids + 1])
                            EXCEPT !.idx_asks_bids = @ + 1],
                        summ, book, exchange, multiplier)
        ELSE MergeLoops([SwapInto(st, summ[st.idx_summary + 1])
                            EXCEPT !.idx_summary = @ + 1],
                        summ, book, exchange, multiplier)
    ELSE IF st.idx_asks_bids < Len(book)
    THEN \* second loop (merger.rs:177-186)
        IF IsOutdated(book[st.idx_asks_bids + 1], exchange)
        THEN MergeLoops([st EXCEPT !.idx_asks_bids = @ + 1],
                        summ, book, exchange, multiplier)
        ELSE MergeLoops([SwapInto(st, book[st.idx_asks_bids + 1])
                            EXCEPT !.idx_asks_bids = @ + 1],
                        summ, book, exchange, multiplier)
    ELSE IF st.idx_summary < Len(summ)
    THEN \* third loop (merger.rs:188-192)
        MergeLoops([SwapInto(st, summ[st.idx_summary + 1])
                        EXCEPT !.idx_summary = @ + 1],
                   summ, book, exchange, multiplier)
    ELSE st

\* Option<String>::None
None == "None"

\* OrderbookMerger::process_summary_asks_bids: (resp, exchange), and whether
\* it panicked on the way.
process_summary_asks_bids(summary_asks_bids, asks_bids, multiplier) ==
    IF summary_asks_bids = <<>>
    THEN [resp |-> asks_bids, exchange |-> None, panic |-> FALSE]
    ELSE
        LET exchange == summary_asks_bids[1].exchange
            count_exchange == CountExchange(asks_bids, exchange)
            capacity == Len(asks_bids) - count_exchange + Len(summary_asks_bids)
            st == MergeLoops([idx_asks_bids |-> 0, idx_summary |-> 0, idx_resp |-> 0,
                              resp |-> [i \in 1..capacity |-> Placeholder],
                              panic |-> FALSE],
                             summary_asks_bids, asks_bids, exchange, multiplier)
        IN [resp |-> st.resp, exchange |-> exchange, panic |-> st.panic]

\* An early return that hands the two sides back in the wrong order.
EarlyReturnSwapped(b, a) == [bids |-> a, asks |-> b, exchange |-> None, panic |-> FALSE]

\* The early return of process_summary on a Summary with both sides empty
\* (merger.rs:103-105): the book as it was.
EarlyReturn(b, a) == [bids |-> b, asks |-> a, exchange |-> None, panic |-> FALSE]

\* OrderbookMerger::process_summary: (bids, asks), the exchange it logs, and
\* whether it panicked.
process_summary(b, a, s) ==
    IF s.asks = <<>> /\ s.bids = <<>>
    THEN EarlyReturn(b, a)
    ELSE
        LET rb == CHOOSE r \in {process_summary_asks_bids(s.bids, b, -1)} : TRUE
            ra == CHOOSE r \in {process_summary_asks_bids(s.asks, a, 1)} : TRUE
        IN [bids |-> rb.resp, asks |-> ra.resp,
            \* exchange_bids.unwrap_or_else(|| exchange_aks.unwrap())
            exchange |-> IF rb.exchange # None THEN rb.exchange ELSE ra.exchange,
            panic |-> rb.panic \/ ra.panic
                      \/ (rb.exchange = None /\ ra.exchange = None)]

\* A receiver of summary_sender that is never seen as dropped.
FanOutNeverDropped == FALSE

\* The receiver of summary_sender is owned by listen_summaries (server.rs:93-96)
\* and is dropped with it.
FanOutDropped == pcB \in {"done", "cancelled"}

\* Whether the loop of start sends after a step: the send at merger.rs:84
\* follows process_summary on every received Summary.
SendsAfter(s) == TRUE

\* One iteration of the loop of OrderbookMerger::start on a received Summary
\* (merger.rs:73-86). The send fails when the receiver of summary_sender has
\* been dropped; the Err is logged and the loop goes on.
MergerStep(e, s) ==
    /\ ~mergerPanicked
    /\ nReceived < MaxSteps
    /\ \E r \in {process_summary(bids, asks, s)} :
          /\ received' = s
          /\ nReceived' = nReceived + 1
          /\ latest' = IF s = EmptySummary THEN latest ELSE [latest EXCEPT ![e] = s]
          /\ replayed' = (nReceived >= 1 /\ s = received)
          /\ IF r.panic
             THEN /\ mergerPanicked' = TRUE
                  /\ UNCHANGED <<bids, asks, nSent, lastSent>>
             ELSE /\ bids' = r.bids
                  /\ asks' = r.asks
                  /\ IF SendsAfter(s) /\ ~FanOutDropped
                     THEN /\ nSent' = nSent + 1
                          /\ lastSent' = WireSummary(summary(r.bids, r.asks, depth))
                     ELSE UNCHANGED <<nSent, lastSent>>
                  /\ UNCHANGED mergerPanicked
    /\ UNCHANGED depth

\* The merger takes a Summary from its input as soon as an adapter sends it.
MergerReceive(e, s) ==
    /\ MergerStep(e, s)
    /\ UNCHANGED <<serverVars, entryVars, probeVars>>

\* OrderbookMerger::new: an empty book and the given depth.
MergerInit ==
    /\ bids = <<>>
    /\ asks = <<>>
    /\ depth \in 0..MaxDepth
    /\ received = EmptySummary
    /\ nReceived = 0
    /\ nSent = 0
    /\ lastSent = WireSummary(EmptySummary)
    /\ mergerPanicked = FALSE
    /\ latest = [e \in Exchanges |-> EmptySummary]
    /\ replayed = FALSE

\* ------------------------------------------------------------------ server

Adapters == Exchanges
Subs == 1..MaxSubs

\* run_server and run_grpc_server up to their joins, with main's channel and
\* signal listener: every task started, no subscriber yet.
ServerInit ==
    /\ shutdownSent = FALSE
    /\ signalTask = "waiting"
    /\ pcAdapter = [a \in Adapters |-> "reading"]
    /\ inQueue = 0
    /\ pcMerger = "running"
    /\ nEmitted = 0
    /\ grpcQueue = <<>>
    /\ pcB = "select"
    /\ bSummary = 0
    /\ bIdx = 0
    /\ bResp = <<>>
    /\ pcR = "select"
    /\ rPending = 0
    /\ regQueue = <<>>
    /\ targets = <<>>
    /\ lock = "free"
    /\ pcRpc = "serving"
    /\ client = [s \in Subs |-> "idle"]
    /\ chan = [s \in Subs |-> <<>>]
    /\ got = [s \in Subs |-> <<>>]
    /\ pcMain = "run_server"

\* main has neither returned nor panicked: the process and its tasks exist.
Running == pcMain \notin {"exited", "failed", "panicked"}

\* signal::ctrl_c() resolves in the signal listener, which broadcasts the
\* shutdown message and ends (main.rs:79-83).
CtrlC ==
    /\ Running
    /\ signalTask = "waiting"
    /\ shutdownSent' = TRUE
    /\ signalTask' = "done"
    /\ UNCHANGED <<pcAdapter, inQueue, pcMerger, nEmitted, grpcQueue, pcB, bSummary,
                   bIdx, bResp, pcR, rPending, regQueue, targets, lock, pcRpc,
                   client, chan, got, pcMain>>
    /\ UNCHANGED <<mergerVars, entryVars, probeVars>>

\* One well-formed frame read by an adapter's for_each closure, decoded to a
\* Summary and sent on summary_tx (binance.rs:94-119, bitstamp.rs:111-141).
\* The send succeeds also after the merger's start has returned: the receiver
\* is a field of the merger, a local of run_server (server.rs:224-226), so it
\* is not dropped while run_server runs, and the channel is unbounded.
AdapterFrame(a) ==
    /\ pcMain = "run_server"
    /\ pcAdapter[a] = "reading"
    /\ inQueue < MaxPending
    /\ inQueue' = inQueue + 1
    /\ UNCHANGED <<shutdownSent, signalTask, pcAdapter, pcMerger, nEmitted, grpcQueue,
                   pcB, bSummary, bIdx, bResp, pcR, rPending, regQueue, targets,
                   lock, pcRpc, client, chan, got, pcMain>>
    /\ UNCHANGED <<mergerVars, entryVars, probeVars>>

\* The upstream websocket ends: for_each completes and the adapter returns
\* Ok(()) (binance.rs:150-152, bitstamp.rs:164-166). Nothing else in run_binance
\* or run_bitstamp ends the stream: neither holds a shutdown receiver.
AdapterUpstreamClosed(a) ==
    /\ pcMain \in {"run_server", "awaiting_adapters"}
    /\ pcAdapter[a] = "reading"
    /\ pcAdapter' = [pcAdapter EXCEPT ![a] = "done"]
    /\ UNCHANGED <<shutdownSent, signalTask, inQueue, pcMerger, nEmitted, grpcQueue,
                   pcB, bSummary, bIdx, bResp, pcR, rPending, regQueue, targets,
                   lock, pcRpc, client, chan, got, pcMain>>
    /\ UNCHANGED <<mergerVars, entryVars, probeVars>>

\* The recv branch of the merger's select with a Summary: it is merged and
\* the new summary() is sent on summary_sender; a failed send is logged
\* (merger.rs:72-86). The emitted Summary is named by its number.
MergerForward ==
    /\ pcMain = "run_server"
    /\ pcMerger = "running"
    /\ inQueue > 0
    /\ nEmitted < MaxEmit
    /\ inQueue' = inQueue - 1
    /\ nEmitted' = nEmitted + 1
    /\ grpcQueue' = IF pcB = "done" THEN grpcQueue ELSE Append(grpcQueue, nEmitted + 1)
    /\ UNCHANGED <<shutdownSent, signalTask, pcAdapter, pcMerger, pcB, bSummary, bIdx,
                   bResp, pcR, rPending, regQueue, targets, lock, pcRpc, client,
                   chan, got, pcMain>>
    /\ UNCHANGED <<mergerVars, entryVars, probeVars>>

\* The recv branch with None: every summary_tx is dropped (both adapters have
\* returned) and nothing is queued (merger.rs:87-90).
MergerInputClosed ==
    /\ pcMain = "run_server"
    /\ pcMerger = "running"
    /\ inQueue = 0
    /\ \A a \in Adapters : pcAdapter[a] = "done"
    /\ pcMerger' = "done"
    /\ UNCHANGED <<shutdownSent, signalTask, pcAdapter, inQueue, nEmitted, grpcQueue,
                   pcB, bSummary, bIdx, bResp, pcR, rPending, regQueue, targets,
                   lock, pcRpc, client, chan, got, pcMain>>
    /\ UNCHANGED <<mergerVars, entryVars, probeVars>>

\* The shutdown branch of the merger's select (merger.rs:92-95).
MergerShutdown ==
    /\ pcMain = "run_server"
    /\ pcMerger = "running"
    /\ shutdownSent
    /\ pcMerger' = "done"
    /\ UNCHANGED <<shutdownSent, signalTask, pcAdapter, inQueue, nEmitted, grpcQueue,
                   pcB, bSummary, bIdx, bResp, pcR, rPending, regQueue, targets,
                   lock, pcRpc, client, chan, got, pcMain>>
    /\ UNCHANGED <<mergerVars, entryVars, probeVars>>

\* A subscriber's receiver that is never seen as dropped.
ReceiverNeverDropped(s) == FALSE

\* The senders of a subscriber's channel fail once its receiver is dropped.
ReceiverDropped(s) == client[s] # "subscribed"

\* tx.send(x).await on a bounded tokio mpsc channel (server.rs:108): "closed"
\* (Err) when the receiver is dropped, "ok" when a slot is free, and otherwise
\* the future stays pending until a slot frees or the receiver is dropped.
SendOutcome(s) ==
    IF ReceiverDropped(s) THEN "closed"
    ELSE IF Len(chan[s]) < Capacity THEN "ok"
    ELSE "pending"

\* A channel that hands out the newest message first.
ChannelPushFront(queue, x) == <<x>> \o queue

\* What a completed send leaves in the channel: the message behind those
\* already buffered (server.rs:108).
ChannelPush(queue, x) == Append(queue, x)

\* A registration channel that is never seen as closed.
RegistrationNeverClosed == FALSE

\* clients_to_connect_sender.send fails (server.rs:140) once
\* listen_clients_to_connect, which owns the receiver, has returned.
RegistrationClosed == pcR = "done"

\* book_summary (server.rs:134-147), for the s-th request: a fresh channel of Capacity, its sender
\* sent on clients_to_connect_sender (capacity 10, never full for MaxSubs
\* requests); Err, and no stream, when the registrar's receiver is dropped.
BookSummary(s) ==
    /\ pcMain = "run_server"
    /\ pcRpc = "serving"
    /\ client[s] = "idle"
    /\ \A r \in 1..(s - 1) : client[r] # "idle"
    /\ IF RegistrationClosed
       THEN /\ client' = [client EXCEPT ![s] = "rejected"]
            /\ UNCHANGED regQueue
       ELSE /\ client' = [client EXCEPT ![s] = "subscribed"]
            /\ regQueue' = Append(regQueue, s)
    /\ UNCHANGED <<shutdownSent, signalTask, pcAdapter, inQueue, pcMerger, nEmitted,
                 grpcQueue, pcB, bSummary, bIdx, bResp, pcR, rPending, targets,
                 lock, pcRpc, chan, got, pcMain>>
    /\ UNCHANGED <<mergerVars, entryVars, probeVars>>

\* The subscriber's stream yields the next buffered Summary.
ClientDrain(s) ==
    /\ Running
    /\ client[s] = "subscribed"
    /\ chan[s] # <<>>
    /\ got' = [got EXCEPT ![s] = Append(@, Head(chan[s]))]
    /\ chan' = [chan EXCEPT ![s] = Tail(@)]
    /\ UNCHANGED <<shutdownSent, signalTask, pcAdapter, inQueue, pcMerger, nEmitted,
                 grpcQueue, pcB, bSummary, bIdx, bResp, pcR, rPending, regQueue,
                 targets, lock, pcRpc, client, pcMain>>
    /\ UNCHANGED <<mergerVars, entryVars, probeVars>>

\* The subscriber disconnects: its ReceiverStream is dropped, and with it
\* what was buffered.
ClientDisconnect(s) ==
    /\ Running
    /\ client[s] = "subscribed"
    /\ client' = [client EXCEPT ![s] = "gone"]
    /\ chan' = [chan EXCEPT ![s] = <<>>]
    /\ UNCHANGED <<shutdownSent, signalTask, pcAdapter, inQueue, pcMerger, nEmitted,
                 grpcQueue, pcB, bSummary, bIdx, bResp, pcR, rPending, regQueue,
                 targets, lock, pcRpc, got, pcMain>>
    /\ UNCHANGED <<mergerVars, entryVars, probeVars>>

\* The registrar's recv branch with Some(tx) (server.rs:76-78), up to the
\* await of targets.lock().
RegistrarRecv ==
    /\ pcMain = "run_server"
    /\ pcR = "select"
    /\ regQueue # <<>>
    /\ rPending' = Head(regQueue)
    /\ regQueue' = Tail(regQueue)
    /\ pcR' = "lock"
    /\ UNCHANGED <<shutdownSent, signalTask, pcAdapter, inQueue, pcMerger, nEmitted,
                 grpcQueue, pcB, bSummary, bIdx, bResp, targets, lock, pcRpc,
                 client, chan, got, pcMain>>
    /\ UNCHANGED <<mergerVars, entryVars, probeVars>>

\* targets.lock().await.push(client_to_connect) (server.rs:78): the guard is
\* taken, the sender pushed, and the guard dropped at the end of the statement.
RegistrarPush ==
    /\ pcMain = "run_server"
    /\ pcR = "lock"
    /\ lock = "free"
    /\ targets' = Append(targets, rPending)
    /\ rPending' = 0
    /\ pcR' = "select"
    /\ UNCHANGED <<shutdownSent, signalTask, pcAdapter, inQueue, pcMerger, nEmitted,
                 grpcQueue, pcB, bSummary, bIdx, bResp, regQueue, lock, pcRpc,
                 client, chan, got, pcMain>>
    /\ UNCHANGED <<mergerVars, entryVars, probeVars>>

\* The registrar's recv branch with None: every clients_to_connect_sender is
\* dropped, which the tonic server does when it ends (server.rs:79-82).
RegistrarClosed ==
    /\ pcMain = "run_server"
    /\ pcR = "select"
    /\ regQueue = <<>>
    /\ pcRpc = "done"
    /\ pcR' = "done"
    /\ UNCHANGED <<shutdownSent, signalTask, pcAdapter, inQueue, pcMerger, nEmitted,
                 grpcQueue, pcB, bSummary, bIdx, bResp, rPending, regQueue, targets,
                 lock, pcRpc, client, chan, got, pcMain>>
    /\ UNCHANGED <<mergerVars, entryVars, probeVars>>

\* The registrar's shutdown branch (server.rs:84-87); the receiver is dropped
\* and the senders still queued with it.
RegistrarShutdown ==
    /\ pcMain = "run_server"
    /\ pcR = "select"
    /\ shutdownSent
    /\ pcR' = "done"
    /\ regQueue' = <<>>
    /\ UNCHANGED <<shutdownSent, signalTask, pcAdapter, inQueue, pcMerger, nEmitted,
                 grpcQueue, pcB, bSummary, bIdx, bResp, rPending, targets, lock,
                 pcRpc, client, chan, got, pcMain>>
    /\ UNCHANGED <<mergerVars, entryVars, probeVars>>

\* The broadcaster's recv branch with Some(summary): targets.lock().await,
\* an empty resp, and the for loop starts (server.rs:103-107). The registrar
\* takes and drops the lock within one statement, so the lock is free
\* whenever the broadcaster is in its select; tokio's Mutex serves its
\* waiters in the order they asked, so a registrar that has been waiting
\* since the previous pass takes the lock first.
BroadcasterRecv ==
    /\ pcMain = "run_server"
    /\ pcB = "select"
    /\ grpcQueue # <<>>
    /\ lock = "free"
    /\ pcR # "lock"
    /\ bSummary' = Head(grpcQueue)
    /\ grpcQueue' = Tail(grpcQueue)
    /\ lock' = "broadcaster"
    /\ bIdx' = 1
    /\ bResp' = <<>>
    /\ pcB' = "send"
    /\ UNCHANGED <<shutdownSent, signalTask, pcAdapter, inQueue, pcMerger, nEmitted,
                   pcR, rPending, regQueue, targets, pcRpc, client, chan, got, pcMain>>
    /\ UNCHANGED <<mergerVars, entryVars, probeVars>>

\* One iteration of the for loop (server.rs:107-113): the send to the target
\* at bIdx resolves, Ok keeping the target in resp and Err leaving it out.
\* While the send is pending the loop, and the lock, stay where they are.
BroadcasterSend ==
    /\ pcMain = "run_server"
    /\ pcB = "send"
    /\ bIdx <= Len(targets)
    /\ LET s == targets[bIdx]
       IN /\ SendOutcome(s) # "pending"
          /\ IF SendOutcome(s) = "ok"
             THEN /\ chan' = [chan EXCEPT ![s] = ChannelPush(@, bSummary)]
                  /\ bResp' = Append(bResp, s)
             ELSE UNCHANGED <<chan, bResp>>
    /\ bIdx' = bIdx + 1
    /\ UNCHANGED <<shutdownSent, signalTask, pcAdapter, inQueue, pcMerger, nEmitted,
                 grpcQueue, pcB, bSummary, pcR, rPending, regQueue, targets, lock,
                 pcRpc, client, got, pcMain>>
    /\ UNCHANGED <<mergerVars, entryVars, probeVars>>

\* The end of the pass: *it_targets = resp, and the guard is dropped
\* (server.rs:115-116).
BroadcasterEndPass ==
    /\ pcMain = "run_server"
    /\ pcB = "send"
    /\ bIdx > Len(targets)
    /\ targets' = bResp
    /\ lock' = "free"
    /\ bSummary' = 0
    /\ bIdx' = 0
    /\ bResp' = <<>>
    /\ pcB' = "select"
    /\ UNCHANGED <<shutdownSent, signalTask, pcAdapter, inQueue, pcMerger, nEmitted,
                 grpcQueue, pcR, rPending, regQueue, pcRpc, client, chan, got,
                 pcMain>>
    /\ UNCHANGED <<mergerVars, entryVars, probeVars>>

\* The broadcaster's shutdown branch (server.rs:121-124); grpc_receiver is
\* dropped with what it still holds. (Its None branch never runs: the merger,
\* a local of run_server, keeps its sender until run_server returns.)
BroadcasterShutdown ==
    /\ pcMain = "run_server"
    /\ pcB = "select"
    /\ shutdownSent
    /\ pcB' = "done"
    /\ grpcQueue' = <<>>
    /\ UNCHANGED <<shutdownSent, signalTask, pcAdapter, inQueue, pcMerger, nEmitted,
                 bSummary, bIdx, bResp, pcR, rPending, regQueue, targets, lock,
                 pcRpc, client, chan, got, pcMain>>
    /\ UNCHANGED <<mergerVars, entryVars, probeVars>>

\* shutdown_signal resolves and serve_with_shutdown returns (server.rs:152-157,
\* 185-188); the service and its clients_to_connect_sender are dropped.
RpcShutdown ==
    /\ pcMain = "run_server"
    /\ pcRpc = "serving"
    /\ shutdownSent
    /\ pcRpc' = "done"
    /\ UNCHANGED <<shutdownSent, signalTask, pcAdapter, inQueue, pcMerger, nEmitted,
                 grpcQueue, pcB, bSummary, bIdx, bResp, pcR, rPending, regQueue,
                 targets, lock, client, chan, got, pcMain>>
    /\ UNCHANGED <<mergerVars, entryVars, probeVars>>

\* Every future of the two try_join! has returned Ok: run_grpc_server and
\* run_server return, dropping targets and the channels (server.rs:193-211,
\* 232-252), and main goes on to its last recv (main.rs:95-108).
JoinCompletes ==
    /\ pcMain = "run_server"
    /\ \A a \in Adapters : pcAdapter[a] = "done"
    /\ pcMerger = "done"
    /\ pcB = "done"
    /\ pcR = "done"
    /\ pcRpc = "done"
    /\ pcMain' = "final_recv"
    /\ targets' = <<>>
    /\ UNCHANGED <<shutdownSent, signalTask, pcAdapter, inQueue, pcMerger, nEmitted,
                 grpcQueue, pcB, bSummary, bIdx, bResp, pcR, rPending, regQueue,
                 lock, pcRpc, client, chan, got>>
    /\ UNCHANGED <<mergerVars, entryVars, probeVars>>

\* main's shutdown_receiver.recv() resolves: a message was broadcast after it
\* was created, or every sender is dropped, the signal listener's being the
\* last (main.rs:105-111).
MainFinalRecv ==
    /\ pcMain = "final_recv"
    /\ shutdownSent \/ signalTask = "done"
    /\ pcMain' = "exited"
    /\ UNCHANGED <<shutdownSent, signalTask, pcAdapter, inQueue, pcMerger, nEmitted,
                 grpcQueue, pcB, bSummary, bIdx, bResp, pcR, rPending, regQueue,
                 targets, lock, pcRpc, client, chan, got>>
    /\ UNCHANGED <<mergerVars, entryVars, probeVars>>

ServerNext ==
    \/ CtrlC
    \/ \E a \in Adapters : AdapterFrame(a)
    \/ \E a \in Adapters : AdapterUpstreamClosed(a)
    \/ MergerForward
    \/ MergerInputClosed
    \/ MergerShutdown
    \/ \E s \in Subs : BookSummary(s)
    \/ \E s \in Subs : ClientDrain(s)
    \/ \E s \in Subs : ClientDisconnect(s)
    \/ RegistrarRecv
    \/ RegistrarPush
    \/ RegistrarClosed
    \/ RegistrarShutdown
    \/ BroadcasterRecv
    \/ BroadcasterSend
    \/ BroadcasterEndPass
    \/ BroadcasterShutdown
    \/ RpcShutdown
    \/ JoinCompletes
    \/ MainFinalRecv

\* -------------------------------------------------------- symbols (types.rs)

\* Text is a sequence of one-character strings.
UpperChars == <<"A", "B", "C", "D", "E", "F", "G", "H", "I", "J", "K", "L", "M",
                "N", "O", "P", "Q", "R", "S", "T", "U", "V", "W", "X", "Y", "Z">>
LowerChars == <<"a", "b", "c", "d", "e", "f", "g", "h", "i", "j", "k", "l", "m",
                "n", "o", "p", "q", "r", "s", "t", "u", "v", "w", "x", "y", "z">>

ToLowerChar(c) ==
    IF \E i \in 1..26 : UpperChars[i] = c
    THEN LowerChars[CHOOSE i \in 1..26 : UpperChars[i] = c]
    ELSE c

\* str::to_lowercase
to_lowercase(text) == [i \in 1..Len(text) |-> ToLowerChar(text[i])]

\* str::find('/'): the index of the first '/', 0 for None.
find(text) ==
    IF \E i \in 1..Len(text) : text[i] = "/"
    THEN CHOOSE i \in 1..Len(text) : text[i] = "/" /\ \A j \in 1..(i - 1) : text[j] # "/"
    ELSE 0

\* The match of Asset::try_from (types.rs:44-56): code and variant.
AssetCodes ==
    { <<<<"a", "d", "a">>, "ADA">>,
      <<<<"b", "t", "c">>, "BTC">>,
      <<<<"d", "o", "t">>, "DOT">>,
      <<<<"e", "t", "h">>, "ETH">>,
      <<<<"l", "i", "n", "k">>, "LINK">>,
      <<<<"l", "t", "c">>, "LTC">>,
      <<<<"s", "o", "l">>, "SOL">>,
      <<<<"u", "s", "d">>, "USD">>,
      <<<<"u", "s", "d", "t">>, "USDT">>,
      <<<<"u", "s", "d", "c">>, "USDC">> }

\* A Result<Symbol, WebsocketError>, and the value symbol has before parsing.
SymbolOk(b, q) == [ok |-> TRUE, base |-> b, quote |-> q, err |-> ""]
SymbolErr(e) == [ok |-> FALSE, base |-> "", quote |-> "", err |-> e]
NoSymbol == SymbolErr("")

\* Asset::try_from(&str), as a Result<Symbol, _> carrying the asset as base.
AssetTryFrom(value) ==
    IF \E p \in AssetCodes : p[1] = value
    THEN SymbolOk((CHOOSE p \in AssetCodes : p[1] = value)[2], "")
    ELSE SymbolErr("InvalidAsset")

\* Symbol::try_from(String) (types.rs:75-84); each ? returns the Err as it is.
SymbolTryFrom(text) ==
    LET value == to_lowercase(text)
        pos_slash == find(value)
        base == AssetTryFrom(SubSeq(value, 1, pos_slash - 1))
        quote == AssetTryFrom(SubSeq(value, pos_slash + 1, Len(value)))
    IN IF pos_slash = 0 THEN SymbolErr("InvalidPair")
       ELSE IF ~base.ok THEN base
       ELSE IF ~quote.ok THEN quote
       ELSE SymbolOk(base.base, quote.base)

\* The --symbol arguments tried: up to MaxPieces pieces put together.
Pieces == {<<"a", "d", "a">>, <<"D", "O", "T">>, <<"/">>, <<"x">>}

RECURSIVE Concat(_)
Concat(ps) == IF ps = <<>> THEN <<>> ELSE Head(ps) \o Concat(Tail(ps))

Texts == {Concat(ps) : ps \in SeqsUpTo(Pieces, MaxPieces)}

\* The argument of a server that has started.
StartedText == <<"a", "d", "a", "/", "d", "o", "t">>

\* The names of the variants of Asset as #[derive(Debug)] writes them
\* (types.rs:25-38).
AssetDebug ==
    { <<"ADA", <<"A", "D", "A">> >>,
      <<"BTC", <<"B", "T", "C">> >>,
      <<"DOT", <<"D", "O", "T">> >>,
      <<"ETH", <<"E", "T", "H">> >>,
      <<"LINK", <<"L", "I", "N", "K">> >>,
      <<"LTC", <<"L", "T", "C">> >>,
      <<"SOL", <<"S", "O", "L">> >>,
      <<"USD", <<"U", "S", "D">> >>,
      <<"USDC", <<"U", "S", "D", "C">> >>,
      <<"USDT", <<"U", "S", "D", "T">> >> }

\* Asset::to_string: format!("{:?}", self) (types.rs:60-64).
to_string(asset) == (CHOOSE p \in AssetDebug : p[1] = asset)[2]

\* binance::symbol_to_string (binance.rs:64-66).
BinanceSymbolToString(s) == to_lowercase(to_string(s.base) \o to_string(s.quote))

\* A symbol_to_string that leaves the case as Debug wrote it.
BitstampSymbolToStringAsWritten(s) == to_string(s.base) \o to_string(s.quote)

\* bitstamp::symbol_to_string (bitstamp.rs:78-80).
BitstampSymbolToString(s) == to_lowercase(to_string(s.base) \o to_string(s.quote))

\* symbol_to_string as adapter a calls it for its URL (binance.rs:79-81) or its
\* subscription message (bitstamp.rs:104-108).
symbol_to_string(a, s) ==
    IF a = "binance" THEN BinanceSymbolToString(s) ELSE BitstampSymbolToString(s)

\* The texts handed to the conversions: every spelling, in upper and lower
\* case, of every code Asset::try_from matches, these spellings paired
\* around a '/', and some texts that are no code.
ToUpperChar(c) ==
    IF \E i \in 1..26 : LowerChars[i] = c
    THEN UpperChars[CHOOSE i \in 1..26 : LowerChars[i] = c]
    ELSE c

CaseSpellings(code) ==
    {sp \in [1..Len(code) -> Range(code) \cup {ToUpperChar(c) : c \in Range(code)}] :
        \A i \in 1..Len(code) : sp[i] \in {code[i], ToUpperChar(code[i])}}

CodeSpellings == UNION {CaseSpellings(p[1]) : p \in AssetCodes}

UnknownTexts == {<<>>, <<"x">>, <<"a", "d">>, <<"e", "t", "h", "x">>, <<"/">>,
                 <<"e", "t", "h", "/">>, <<"/", "B", "T", "C">>}

PairTexts == {b \o <<"/">> \o q : b \in CodeSpellings, q \in CodeSpellings}

TypeTexts == CodeSpellings \cup UnknownTexts \cup PairTexts

\* ------------------------------------------- frames (binance.rs, bitstamp.rs)

\* The strings of a raw level: one that parses as an f64 and one that does not.
RawFields == {"1", "x"}

\* str::parse::<f64>
ParsesAsF64(s) == s \in {"1", "2"}
ParsedF64(s) == IF s = "1" THEN 1 ELSE IF s = "2" THEN 2 ELSE 0

\* Vec<String>, and Vec<Vec<String>>.
RawLevels == SeqsUpTo(RawFields, MaxFields)
RawSides == SeqsUpTo(RawLevels, MaxRawLen)

\* A websocket message as the closure gets it: a read error, or data that is
\* no JSON, JSON of no known shape or event, bitstamp's
\* bts:subscription_succeeded, or an order book with its raw sides.
Frame(shape, b, a) == [shape |-> shape, bids |-> b, asks |-> a]

BookFrames == {Frame("book", b, a) : b \in RawSides, a \in RawSides}

\* No frame yet.
NoFrame == Frame("none", <<>>, <<>>)

\* bitstamp data frames with up to MaxDataLen entries on a side: entries at
\* two prices, and an entry that is no [price, quantity] pair.
DataEntries == {<<"1", "1">>, <<"2", "1">>, <<"x">>}
DataFrames ==
    {Frame("book", b, a) : b \in SeqsUpTo(DataEntries, MaxDataLen),
                           a \in SeqsUpTo(DataEntries, MaxDataLen)}

Frames(a) ==
    {Frame(s, <<>>, <<>>) : s \in {"read_error", "not_json", "unknown_event"}}
        \cup (IF a = "bitstamp" THEN {Frame("succeeded", <<>>, <<>>)} ELSE {})
        \cup BookFrames

\* The results of try_into: a panic (index out of bounds), Err(ParseError) or
\* Ok with the levels.
Converted(tag, levels) == [tag |-> tag, levels |-> levels]

\* One Level { .. } expression (binance.rs:41-45, bitstamp.rs:46-50): raw[0]
\* is indexed and parsed, then raw[1].
ConvertLevel(raw, e) ==
    IF Len(raw) < 1 THEN Converted("panic", <<>>)
    ELSE IF ~ParsesAsF64(raw[1]) THEN Converted("ParseError", <<>>)
    ELSE IF Len(raw) < 2 THEN Converted("panic", <<>>)
    ELSE IF ~ParsesAsF64(raw[2]) THEN Converted("ParseError", <<>>)
    ELSE Converted("ok", <<Level(e, ParsedF64(raw[1]), ParsedF64(raw[2]))>>)

\* One for loop of try_into: the levels in order, up to the first that fails.
RECURSIVE ConvertSide(_, _)
ConvertSide(raws, e) ==
    IF raws = <<>> THEN Converted("ok", <<>>)
    ELSE LET first == ConvertLevel(Head(raws), e)
             rest == ConvertSide(Tail(raws), e)
         IN IF first.tag # "ok" THEN first
            ELSE IF rest.tag # "ok" THEN rest
            ELSE Converted("ok", first.levels \o rest.levels)

\* TryInto<Summary> for DepthSnapshot and for Data: bids, then asks.
TryIntoSummary(b, a, e) ==
    LET cb == ConvertSide(b, e)
        ca == ConvertSide(a, e)
    IN IF cb.tag # "ok" THEN [tag |-> cb.tag, summary |-> EmptySummary]
       ELSE IF ca.tag # "ok" THEN [tag |-> ca.tag, summary |-> EmptySummary]
       ELSE [tag |-> "ok", summary |-> Summary(cb.levels, ca.levels)]

\* A side that is left as the exchange sent it.
KeepAsSent(side, d) == side

\* Keeping only the updates within the depth (bitstamp.rs:124-129).
KeepWithinDepth(side, d) == IF Len(side) > d THEN SubSeq(side, 1, d) ELSE side

\* A closure that sends whatever the frame is.
ClosureSendsAlways(a, f, d) == "send"

\* What the for_each closure does with one frame, before any send: "panic",
\* "dropped" (logged and left), "ignored" (bts:subscription_succeeded) or
\* "send". binance.rs:96-148: a read error is logged; only a book decodes as
\* a DepthSnapshot. bitstamp.rs:113-162: message.unwrap() panics on a read
\* error; the sides are cut to depth before try_into.
ClosureOutcome(a, f, d) ==
    IF f.shape = "read_error"
    THEN (IF a = "bitstamp" THEN "panic" ELSE "dropped")
    ELSE IF f.shape \in {"not_json", "unknown_event"} THEN "dropped"
    ELSE IF f.shape = "succeeded" THEN "ignored"
    ELSE LET b == IF a = "bitstamp" THEN KeepWithinDepth(f.bids, d) ELSE f.bids
             k == IF a = "bitstamp" THEN KeepWithinDepth(f.asks, d) ELSE f.asks
             r == TryIntoSummary(b, k, a)
         IN IF r.tag = "panic" THEN "panic"
            ELSE IF r.tag = "ParseError" THEN "dropped"
            ELSE "send"

\* The kind of a frame: a book is "short_level" when some raw level has fewer
\* than two strings, else "bad_number" when some string is no number, else
\* "good".
FrameKind(f) ==
    IF f.shape # "book" THEN f.shape
    ELSE LET raws == Range(f.bids) \cup Range(f.asks)
         IN IF \E raw \in raws : Len(raw) < 2 THEN "short_level"
            ELSE IF \E raw \in raws : \E i \in 1..Len(raw) : ~ParsesAsF64(raw[i])
            THEN "bad_number"
            ELSE "good"

\* ------------------------------------------------- startup and the adapters

\* The entry variables of a server that has started with valid arguments.
EntryStarted ==
    /\ symbolText = StartedText
    /\ symbol = SymbolTryFrom(StartedText)
    /\ addressOk = TRUE
    /\ lastKind = [a \in Adapters |-> "none"]
    /\ adapterLog = [a \in Adapters |-> "none"]
    /\ rxDropped = FALSE

\* A future dropped by a try_join! that returns Err, unless it has completed.
Cancel(pc) == IF pc \in {"done", "failed"} THEN pc ELSE "cancelled"

\* main from Cli::parse to the first poll of run_server (main.rs:92-98).
\* Symbol::try_from(symbol)? returns its Err from main. Otherwise run_server
\* polls its try_join!: both adapters reach connect_async, and
\* run_grpc_server parses the address (server.rs:171-172); if that fails it
\* returns Err, the try_join! of run_server returns Err and drops the other
\* futures, the Err arm logs it and run_server returns Ok(()) (server.rs:247-252),
\* so main goes on to its last recv.
MainStart ==
    /\ pcMain = "parse_cli"
    /\ \E r \in {SymbolTryFrom(symbolText)} :
        /\ symbol' = r
        /\ IF ~r.ok
           THEN /\ pcMain' = "failed"
                /\ UNCHANGED <<pcAdapter, pcMerger, pcB, pcR, pcRpc>>
           ELSE IF ~addressOk
           THEN /\ pcMain' = "final_recv"
                /\ pcAdapter' = [a \in Adapters |-> "cancelled"]
                /\ pcMerger' = "cancelled"
                /\ pcB' = "cancelled"
                /\ pcR' = "cancelled"
                /\ pcRpc' = "failed"
           ELSE /\ pcMain' = "run_server"
                /\ pcAdapter' = [a \in Adapters |-> "connecting"]
                /\ pcMerger' = "running"
                /\ pcB' = "select"
                /\ pcR' = "select"
                /\ pcRpc' = "serving"
    /\ UNCHANGED <<shutdownSent, signalTask, inQueue, nEmitted, grpcQueue, bSummary,
                   bIdx, bResp, rPending, regQueue, targets, lock, client, chan, got>>
    /\ UNCHANGED <<symbolText, addressOk, lastKind, adapterLog, rxDropped>>
    /\ UNCHANGED <<mergerVars, probeVars>>

\* connect_async resolves (binance.rs:87-89, bitstamp.rs:98-100): a failed
\* handshake panics in expect("Failed to connect"), and the panic unwinds
\* through the caller that polls the adapter. bitstamp then sends its
\* subscription, and returns Err when that fails (bitstamp.rs:104-109); inside
\* run_server the try_join! then returns Err, the other futures are dropped
\* and run_server returns Ok(()) (server.rs:232-252).
AdapterConnect(a) ==
    /\ pcMain \in {"run_server", "awaiting_adapters"}
    /\ pcAdapter[a] = "connecting"
    /\ \E outcome \in {"connected", "refused"}
                        \cup (IF a = "bitstamp" THEN {"subscribe_failed"} ELSE {}) :
        /\ adapterLog' = [adapterLog EXCEPT ![a] = outcome]
        /\ IF outcome = "refused"
           THEN /\ pcMain' = "panicked"
                /\ UNCHANGED <<pcAdapter, pcMerger, pcB, pcR, pcRpc, inQueue,
                               grpcQueue, regQueue>>
           ELSE IF outcome = "connected"
           THEN /\ pcAdapter' = [pcAdapter EXCEPT ![a] = "reading"]
                /\ UNCHANGED <<pcMain, pcMerger, pcB, pcR, pcRpc, inQueue,
                               grpcQueue, regQueue>>
           ELSE IF pcMain = "run_server"
           THEN /\ pcAdapter' = [x \in Adapters |->
                                    IF x = a THEN "failed" ELSE Cancel(pcAdapter[x])]
                /\ pcMerger' = Cancel(pcMerger)
                /\ pcB' = Cancel(pcB)
                /\ pcR' = Cancel(pcR)
                /\ pcRpc' = Cancel(pcRpc)
                /\ inQueue' = 0
                /\ grpcQueue' = <<>>
                /\ regQueue' = <<>>
                /\ pcMain' = "final_recv"
           ELSE /\ pcAdapter' = [pcAdapter EXCEPT ![a] = "failed"]
                /\ UNCHANGED <<pcMain, pcMerger, pcB, pcR, pcRpc, inQueue,
                               grpcQueue, regQueue>>
    /\ UNCHANGED <<shutdownSent, signalTask, nEmitted, bSummary, bIdx, bResp,
                   rPending, targets, lock, client, chan, got>>
    /\ UNCHANGED <<symbolText, symbol, addressOk, lastKind, rxDropped>>
    /\ UNCHANGED <<mergerVars, probeVars>>

\* One call of the for_each closure on frame f (binance.rs:94-150,
\* bitstamp.rs:111-164). A panic unwinds through the caller. A dropped or
\* ignored frame, and a failed summary_tx.send, which is logged, leave the
\* closure normally: for_each goes on to the next frame.
AdapterRead(a, f) ==
    /\ pcMain \in {"run_server", "awaiting_adapters"}
    /\ pcAdapter[a] = "reading"
    /\ framesRead[a] < MaxFrames
    /\ framesRead' = [framesRead EXCEPT ![a] = @ + 1]
    /\ lastKind' = [lastKind EXCEPT ![a] = FrameKind(f)]
    /\ \E out \in {ClosureOutcome(a, f, depth)} :
        IF out = "panic"
        THEN /\ pcMain' = "panicked"
             /\ adapterLog' = [adapterLog EXCEPT ![a] = "panicked"]
             /\ UNCHANGED inQueue
        ELSE IF out # "send"
        THEN /\ adapterLog' = [adapterLog EXCEPT ![a] = out]
             /\ UNCHANGED <<pcMain, inQueue>>
        ELSE IF rxDropped
        THEN /\ adapterLog' = [adapterLog EXCEPT ![a] = "send_failed"]
             /\ UNCHANGED <<pcMain, inQueue>>
        ELSE /\ inQueue < MaxPending
             /\ inQueue' = inQueue + 1
             /\ adapterLog' = [adapterLog EXCEPT ![a] = "sent"]
             /\ UNCHANGED pcMain
    /\ UNCHANGED <<shutdownSent, signalTask, pcAdapter, pcMerger, nEmitted, grpcQueue,
                   pcB, bSummary, bIdx, bResp, pcR, rPending, regQueue, targets,
                   lock, pcRpc, client, chan, got>>
    /\ UNCHANGED <<symbolText, symbol, addressOk, rxDropped>>
    /\ UNCHANGED <<mergerVars, typesVars, drainVars>>

\* A caller of run_binance and run_bitstamp other than run_server drops the
\* receiver of summary_tx, and with it what is queued.
DropReceiver ==
    /\ pcMain = "awaiting_adapters"
    /\ ~rxDropped
    /\ rxDropped' = TRUE
    /\ inQueue' = 0
    /\ UNCHANGED <<shutdownSent, signalTask, pcAdapter, pcMerger, nEmitted, grpcQueue,
                   pcB, bSummary, bIdx, bResp, pcR, rPending, regQueue, targets,
                   lock, pcRpc, client, chan, got, pcMain>>
    /\ UNCHANGED <<symbolText, symbol, addressOk, lastKind, adapterLog>>
    /\ UNCHANGED <<mergerVars, probeVars>>

\* The caller that owns the receiver takes one Summary from the channel.
ReceiverRecv ==
    /\ pcMain = "awaiting_adapters"
    /\ ~rxDropped
    /\ inQueue > 0
    /\ inQueue' = inQueue - 1
    /\ UNCHANGED <<shutdownSent, signalTask, pcAdapter, pcMerger, nEmitted, grpcQueue,
                   pcB, bSummary, bIdx, bResp, pcR, rPending, regQueue, targets,
                   lock, pcRpc, client, chan, got, pcMain>>
    /\ UNCHANGED <<entryVars, probeVars, mergerVars>>

\* A recv that hands out the newest message of the channel.
recvNewest(queue) == queue[Len(queue)]

\* UnboundedReceiver::recv on a channel that holds messages (merger.rs:72):
\* the oldest one.
recv(queue) == Head(queue)

\* The recv branch of the select! of start with Some(summary) (merger.rs:72-86),
\* on a channel whose content is kept in full.
MergerRecvQueued ==
    /\ pcMain = "run_server"
    /\ pcMerger = "running"
    /\ inputQueue # <<>>
    /\ \E m \in {recv(inputQueue)} : MergerStep(m.exchange, m.summary)
    /\ inputQueue' = Tail(inputQueue)
    /\ inQueue' = inQueue - 1
    /\ UNCHANGED <<shutdownSent, signalTask, pcAdapter, pcMerger, nEmitted, grpcQueue,
                   pcB, bSummary, bIdx, bResp, pcR, rPending, regQueue, targets,
                   lock, pcRpc, client, chan, got, pcMain>>
    /\ UNCHANGED <<entryVars, framesRead, typesVars, inputSent>>

\* The Data arm of bitstamp's closure (bitstamp.rs:122-150) on dataFrame,
\* with the Summary it sends kept in full on the merger's input.
BitstampData ==
    /\ pcMain = "awaiting_adapters"
    /\ pcAdapter["bitstamp"] = "reading"
    /\ framesRead["bitstamp"] < MaxFrames
    /\ framesRead' = [framesRead EXCEPT !["bitstamp"] = @ + 1]
    /\ lastKind' = [lastKind EXCEPT !["bitstamp"] = FrameKind(dataFrame)]
    /\ \E out \in {ClosureOutcome("bitstamp", dataFrame, depth)} :
        IF out = "panic"
        THEN /\ pcMain' = "panicked"
             /\ adapterLog' = [adapterLog EXCEPT !["bitstamp"] = "panicked"]
             /\ UNCHANGED <<inQueue, inputQueue, inputSent>>
        ELSE IF out # "send"
        THEN /\ adapterLog' = [adapterLog EXCEPT !["bitstamp"] = out]
             /\ UNCHANGED <<pcMain, inQueue, inputQueue, inputSent>>
        ELSE \E m \in {[exchange |-> "bitstamp",
                        summary |-> TryIntoSummary(
                            KeepWithinDepth(dataFrame.bids, depth),
                            KeepWithinDepth(dataFrame.asks, depth),
                            "bitstamp").summary]} :
             /\ inputQueue' = Append(inputQueue, m)
             /\ inputSent' = Append(inputSent, m)
             /\ inQueue' = inQueue + 1
             /\ adapterLog' = [adapterLog EXCEPT !["bitstamp"] = "sent"]
             /\ UNCHANGED pcMain
    /\ UNCHANGED <<shutdownSent, signalTask, pcAdapter, pcMerger, nEmitted, grpcQueue,
                   pcB, bSummary, bIdx, bResp, pcR, rPending, regQueue, targets,
                   lock, pcRpc, client, chan, got>>
    /\ UNCHANGED <<symbolText, symbol, addressOk, rxDropped>>
    /\ UNCHANGED <<mergerVars, typesVars>>

\* Asset::try_from applied to the text.
ParseAsset ==
    /\ assetResult = NoSymbol
    /\ assetResult' = AssetTryFrom(typeText)
    /\ UNCHANGED <<typeText, symbolResult, formatted, dataFrame>>
    /\ UNCHANGED <<mergerVars, serverVars, entryVars, framesRead, drainVars>>

\* Symbol::try_from applied to the text.
ParseSymbol ==
    /\ symbolResult = NoSymbol
    /\ symbolResult' = SymbolTryFrom(typeText)
    /\ UNCHANGED <<typeText, assetResult, formatted, dataFrame>>
    /\ UNCHANGED <<mergerVars, serverVars, entryVars, framesRead, drainVars>>

\* Adapter a formats the parsed Symbol.
FormatSymbol(a) ==
    /\ symbolResult.ok
    /\ formatted[a] = <<>>
    /\ formatted' = [formatted EXCEPT ![a] = symbol_to_string(a, symbolResult)]
    /\ UNCHANGED <<typeText, assetResult, symbolResult, dataFrame>>
    /\ UNCHANGED <<mergerVars, serverVars, entryVars, framesRead, drainVars>>

\* --------------------------------------------------------- specifications

\* Nothing has been handed to the conversions, nothing is queued for the
\* merger, no frame has been read.
ProbesIdle ==
    /\ framesRead = [a \in Adapters |-> 0]
    /\ typeText = <<>>
    /\ assetResult = NoSymbol
    /\ symbolResult = NoSymbol
    /\ formatted = [a \in Adapters |-> <<>>]
    /\ dataFrame = NoFrame
    /\ inputQueue = <<>>
    /\ inputSent = <<>>

Init == MergerInit /\ ServerInit /\ EntryStarted /\ ProbesIdle

Next == \E e \in Exchanges : \E s \in AdapterSummaries(e) : MergerReceive(e, s)

Spec == Init /\ [][Next]_vars

\* The server's tasks around a merger whose Summaries are named by number;
\* the book itself stays as constructed.
ServerSpecInit ==
    MergerInit /\ depth = MaxDepth /\ ServerInit /\ EntryStarted /\ ProbesIdle

ServerSpec == ServerSpecInit /\ [][ServerNext]_vars

\* What each task does by itself once it is polled. The rest of ServerNext is
\* the environment's: the interrupt, the exchanges' frames and closes, the
\* subscribers' requests, reads and disconnects.
MergerTask == MergerForward \/ MergerInputClosed \/ MergerShutdown
RegistrarTask == RegistrarRecv \/ RegistrarPush \/ RegistrarClosed \/ RegistrarShutdown
BroadcasterTask ==
    BroadcasterRecv \/ BroadcasterSend \/ BroadcasterEndPass \/ BroadcasterShutdown
MainTask == JoinCompletes \/ MainFinalRecv

\* The tokio runtime polls every task that can make progress.
FairServerSpec ==
    /\ ServerSpec
    /\ WF_vars(MergerTask)
    /\ WF_vars(RegistrarTask)
    /\ WF_vars(BroadcasterTask)
    /\ WF_vars(RpcShutdown)
    /\ WF_vars(MainTask)

\* The server in steady state: no interrupt arrives and both websockets stay
\* open, so no task is asked to stop. Every behaviour is one of ServerSpec.
SteadyNext ==
    \/ \E a \in Adapters : AdapterFrame(a)
    \/ MergerForward
    \/ \E s \in Subs : BookSummary(s)
    \/ \E s \in Subs : ClientDrain(s)
    \/ \E s \in Subs : ClientDisconnect(s)
    \/ RegistrarRecv
    \/ RegistrarPush
    \/ BroadcasterRecv
    \/ BroadcasterSend
    \/ BroadcasterEndPass

FairSteadySpec ==
    /\ ServerSpecInit
    /\ [][SteadyNext]_vars
    /\ WF_vars(MergerTask)
    /\ WF_vars(RegistrarTask)
    /\ WF_vars(BroadcasterTask)

\* No message anywhere, no subscriber, no interrupt yet.
Quiet ==
    /\ shutdownSent = FALSE
    /\ signalTask = "waiting"
    /\ inQueue = 0
    /\ nEmitted = 0
    /\ grpcQueue = <<>>
    /\ bSummary = 0
    /\ bIdx = 0
    /\ bResp = <<>>
    /\ rPending = 0
    /\ regQueue = <<>>
    /\ targets = <<>>
    /\ lock = "free"
    /\ client = [s \in Subs |-> "idle"]
    /\ chan = [s \in Subs |-> <<>>]
    /\ got = [s \in Subs |-> <<>>]

\* run_binance and run_bitstamp awaited by a caller that owns the receiving
\* end of their channel and may drop it; depth is any of 0..MaxDepth.
AdapterSpecInit ==
    /\ MergerInit
    /\ ProbesIdle
    /\ Quiet
    /\ pcMain = "awaiting_adapters"
    /\ pcAdapter = [a \in Adapters |-> "connecting"]
    /\ pcMerger = "unstarted"
    /\ pcB = "unstarted"
    /\ pcR = "unstarted"
    /\ pcRpc = "unstarted"
    /\ symbolText = StartedText
    /\ symbol = SymbolTryFrom(StartedText)
    /\ addressOk = TRUE
    /\ lastKind = [a \in Adapters |-> "none"]
    /\ adapterLog = [a \in Adapters |-> "none"]
    /\ rxDropped = FALSE

AdapterNext ==
    \/ \E a \in Adapters : AdapterConnect(a)
    \/ \E a \in Adapters : \E f \in Frames(a) : AdapterRead(a, f)
    \/ \E a \in Adapters : AdapterUpstreamClosed(a)
    \/ DropReceiver
    \/ ReceiverRecv

AdapterSpec == AdapterSpecInit /\ [][AdapterNext]_vars

\* main before Cli::parse's command is looked at, with any --symbol and
\* --address; the frames are well-formed and no subscriber connects.
EntryInit ==
    /\ MergerInit
    /\ ProbesIdle
    /\ depth = MaxDepth
    /\ Quiet
    /\ pcMain = "parse_cli"
    /\ pcAdapter = [a \in Adapters |-> "unstarted"]
    /\ pcMerger = "unstarted"
    /\ pcB = "unstarted"
    /\ pcR = "unstarted"
    /\ pcRpc = "unstarted"
    /\ symbolText \in Texts
    /\ symbol = NoSymbol
    /\ addressOk \in BOOLEAN
    /\ lastKind = [a \in Adapters |-> "none"]
    /\ adapterLog = [a \in Adapters |-> "none"]
    /\ rxDropped = FALSE

EntryNext ==
    \/ MainStart
    \/ CtrlC
    \/ \E a \in Adapters : AdapterConnect(a)
    \/ \E a \in Adapters : AdapterFrame(a)
    \/ \E a \in Adapters : AdapterUpstreamClosed(a)
    \/ MergerForward
    \/ MergerInputClosed
    \/ MergerShutdown
    \/ RegistrarClosed
    \/ RegistrarShutdown
    \/ BroadcasterRecv
    \/ BroadcasterEndPass
    \/ BroadcasterShutdown
    \/ RpcShutdown
    \/ JoinCompletes
    \/ MainFinalRecv

EntrySpec == EntryInit /\ [][EntryNext]_vars

\* The tokio runtime polls every task that can make progress; the interrupt,
\* the handshakes and the frames are the environment's.
FairEntrySpec ==
    /\ EntrySpec
    /\ WF_vars(MainStart)
    /\ WF_vars(MergerTask)
    /\ WF_vars(RegistrarTask)
    /\ WF_vars(BroadcasterTask)
    /\ WF_vars(RpcShutdown)
    /\ WF_vars(MainTask)

\* The conversions of types.rs and the adapters' symbol_to_string, applied
\* to a text: nothing else runs.
TypesInit ==
    /\ MergerInit
    /\ depth = MaxDepth
    /\ ServerInit
    /\ EntryStarted
    /\ framesRead = [a \in Adapters |-> 0]
    /\ typeText \in TypeTexts
    /\ assetResult = NoSymbol
    /\ symbolResult = NoSymbol
    /\ formatted = [a \in Adapters |-> <<>>]
    /\ dataFrame = NoFrame
    /\ inputQueue = <<>>
    /\ inputSent = <<>>

TypesNext ==
    \/ ParseAsset
    \/ ParseSymbol
    \/ \E a \in Adapters : FormatSymbol(a)

TypesSpec == TypesInit /\ [][TypesNext]_vars

\* The merger once both adapters have returned and dropped their senders:
\* what they sent before is queued on summary_receiver. The interrupt may
\* still arrive, and listen_summaries then returns and drops the receiver of
\* summary_sender.
QueuedSummaries ==
    UNION {{[exchange |-> e, summary |-> s] : s \in AdapterSummaries(e)} :
            e \in Exchanges}

DrainInit ==
    /\ MergerInit
    /\ depth = MaxDepth
    /\ shutdownSent = FALSE
    /\ signalTask = "waiting"
    /\ nEmitted = 0
    /\ grpcQueue = <<>>
    /\ bSummary = 0
    /\ bIdx = 0
    /\ bResp = <<>>
    /\ rPending = 0
    /\ regQueue = <<>>
    /\ targets = <<>>
    /\ lock = "free"
    /\ client = [s \in Subs |-> "idle"]
    /\ chan = [s \in Subs |-> <<>>]
    /\ got = [s \in Subs |-> <<>>]
    /\ pcMain = "run_server"
    /\ pcAdapter = [a \in Adapters |-> "done"]
    /\ pcMerger = "running"
    /\ pcB = "select"
    /\ pcR = "select"
    /\ pcRpc = "serving"
    /\ EntryStarted
    /\ framesRead = [a \in Adapters |-> 0]
    /\ typeText = <<>>
    /\ assetResult = NoSymbol
    /\ symbolResult = NoSymbol
    /\ formatted = [a \in Adapters |-> <<>>]
    /\ dataFrame = NoFrame
    /\ inputQueue \in SeqsUpTo(QueuedSummaries, MaxQueued)
    /\ inputSent = inputQueue
    /\ inQueue = Len(inputQueue)

DrainNext ==
    \/ MergerRecvQueued
    \/ MergerInputClosed
    \/ MergerShutdown
    \/ CtrlC
    \/ BroadcasterShutdown

DrainSpec == DrainInit /\ [][DrainNext]_vars

\* run_bitstamp reading, at any depth, a data frame of up to MaxDataLen
\* entries a side; its caller keeps the receiver and what is sent on it.
TruncateInit ==
    /\ MergerInit
    /\ Quiet
    /\ pcMain = "awaiting_adapters"
    /\ pcAdapter = [a \in Adapters |-> "reading"]
    /\ pcMerger = "unstarted"
    /\ pcB = "unstarted"
    /\ pcR = "unstarted"
    /\ pcRpc = "unstarted"
    /\ EntryStarted
    /\ framesRead = [a \in Adapters |-> 0]
    /\ typeText = <<>>
    /\ assetResult = NoSymbol
    /\ symbolResult = NoSymbol
    /\ formatted = [a \in Adapters |-> <<>>]
    /\ dataFrame \in DataFrames
    /\ inputQueue = <<>>
    /\ inputSent = <<>>

TruncateNext == BitstampData

TruncateSpec == TruncateInit /\ [][TruncateNext]_vars

\* ------------------------------------------------------ claims on the merger

\* The levels of seq tagged with exchange e, in their order.
Tagged(seq, e) == SelectSeq(seq, LAMBDA l : l.exchange = e)

NonIncreasing(seq) == \A i \in 1..(Len(seq) - 1) : seq[i].price >= seq[i + 1].price
NonDecreasing(seq) == \A i \in 1..(Len(seq) - 1) : seq[i].price <= seq[i + 1].price

\* A Summary as the spec's data model orders it: bids descending, asks ascending.
SortedSummary(s) == NonIncreasing(s.bids) /\ NonDecreasing(s.asks)

\* The step just taken was a merger step.
MergerStepped == nReceived' = nReceived + 1

\* C1 (as claimed): after any sequence of adapter Summaries, for every
\* exchange E the levels tagged E in bids are exactly the bids of E's most
\* recent non-empty Summary, and the levels tagged E in asks are exactly its
\* asks: nothing of an earlier Summary of E survives on either side.
C1_PerExchangeReplacement ==
    \A e \in Exchanges :
        /\ Tagged(bids, e) = latest[e].bids
        /\ Tagged(asks, e) = latest[e].asks

\* C2: a merger step on a sorted book with a sorted Summary leaves bids
\* non-increasing and asks non-decreasing in price, so a book that starts
\* sorted and only receives sorted Summaries stays sorted.
C2_OrderPreserved ==
    [][(/\ MergerStepped
        /\ NonIncreasing(bids) /\ NonDecreasing(asks)
        /\ SortedSummary(received'))
       => (NonIncreasing(bids') /\ NonDecreasing(asks'))]_vars

\* C2's case: both exchanges interleaved on both sides of a sorted book, at
\* more than one price, after a sorted Summary.
C2_Witness ==
    /\ nReceived >= 2
    /\ SortedSummary(received) /\ received.bids # <<>> /\ received.asks # <<>>
    /\ \A e \in Exchanges : Tagged(bids, e) # <<>> /\ Tagged(asks, e) # <<>>
    /\ Len(bids) >= 3 /\ Len(asks) >= 3
    /\ bids[1].price > bids[Len(bids)].price
    /\ asks[1].price < asks[Len(asks)].price
    /\ NonIncreasing(bids) /\ NonDecreasing(asks)

\* C3: every Summary the merger has sent downstream has at most depth bids
\* and at most depth asks, for every depth from 0 up.
C3_DepthBound ==
    nSent > 0 => (Len(lastSent.bids) <= depth /\ Len(lastSent.asks) <= depth)

\* C3's case: a book longer than depth on both sides, sent truncated.
C3_Witness ==
    /\ nSent > 0
    /\ depth >= 1
    /\ Len(bids) > depth /\ Len(asks) > depth
    /\ Len(lastSent.bids) = depth /\ Len(lastSent.asks) = depth

\* C4 (as claimed): a step on a Summary with both sides empty sends nothing
\* downstream: the number of emissions is unchanged by the step.
C4_EmptySendsNothing ==
    [][(MergerStepped /\ received' = EmptySummary) => nSent' = nSent]_vars

\* C5: a step on a Summary with both sides empty leaves bids and asks as
\* they were, level for level.
C5_EmptyLeavesBook ==
    [][(MergerStepped /\ received' = EmptySummary)
       => (bids' = bids /\ asks' = asks)]_vars

\* C5's case: an empty Summary has been processed on a book that holds
\* levels on both sides, the two sides differing.
C5_Witness ==
    /\ nReceived >= 2
    /\ received = EmptySummary
    /\ bids # <<>> /\ asks # <<>>
    /\ bids # asks

\* C16: when the merger receives the same Summary as in the step before, the
\* step succeeds, leaves bids and asks as they were and sends the same
\* orderbook::Summary again.
C16_ReplayIdempotent ==
    [][(MergerStepped /\ nReceived >= 1 /\ received' = received)
       => /\ ~mergerPanicked'
          /\ bids' = bids /\ asks' = asks
          /\ nSent' = nSent + 1 /\ lastSent' = lastSent]_vars

\* C16's case: a non-empty Summary has been replayed on a book that holds
\* levels of both exchanges.
C16_Witness ==
    /\ replayed
    /\ received.bids # <<>> /\ received.asks # <<>>
    /\ \A e \in Exchanges : Tagged(bids, e) # <<>> /\ Tagged(asks, e) # <<>>

\* C17: with depth 0 every Summary the merger sends has no bids, no asks and
\* a NaN spread, and the merger has sent one for every Summary received,
\* without panicking.
C17_DepthZeroEmitsEmpty ==
    depth = 0 =>
        /\ ~mergerPanicked
        /\ nSent = nReceived
        /\ nSent > 0 => lastSent = [spread |-> NaN, bids |-> <<>>, asks |-> <<>>]

\* C17's case: with depth 0 the merger has gone through several Summaries,
\* sending after each, and its book holds levels on both sides.
C17_Witness ==
    /\ depth = 0
    /\ nSent >= 2
    /\ bids # <<>> /\ asks # <<>>

\* C18: the spread of every orderbook::Summary sent is NaN exactly when the
\* truncated Summary it was built from has no bids or no asks, and is
\* otherwise the price of its first ask minus the price of its first bid.
C18_SpreadOfTruncated ==
    nSent > 0 =>
        LET truncated == summary(bids, asks, depth)
        IN /\ lastSent.spread.nan <=> (truncated.bids = <<>> \/ truncated.asks = <<>>)
           /\ ~lastSent.spread.nan =>
                 /\ lastSent.spread.value = truncated.asks[1].price - truncated.bids[1].price
                 /\ lastSent.spread.value = lastSent.asks[1].price - lastSent.bids[1].price

\* C18's case: a Summary cut to depth from a longer book has been sent with a
\* spread that is a number other than 0.
C18_Witness ==
    /\ nSent > 0
    /\ Len(bids) > depth /\ Len(asks) > depth
    /\ ~lastSent.spread.nan
    /\ lastSent.spread.value # 0

\* ------------------------------------------------------ claims on the server

\* The broadcaster's pass is at subscriber s, whose send is pending: the
\* channel is full and its receiver alive.
StalledOn(s) ==
    /\ pcB = "send"
    /\ bIdx <= Len(targets)
    /\ targets[bIdx] = s
    /\ SendOutcome(s) = "pending"

\* C6 (as claimed): a subscriber that never drains is evicted by the fifth
\* emission: once four Summaries fill its channel and the broadcaster is at
\* the fifth send to it, the subscriber leaves targets (unless it drains).
C6_SlowSubscriberEvicted ==
    \A s \in Subs :
        (StalledOn(s) /\ got[s] = <<>>) ~> (s \notin Range(targets) \/ got[s] # <<>>)

\* C7 (as claimed): the broadcaster never blocks on one slow client: a pass
\* that is at a subscriber with a full channel, with another live subscriber
\* in targets, completes even if the slow subscriber drains nothing more.
C7_PassCompletes ==
    \A s \in Subs : \A n \in 0..MaxEmit :
        (/\ StalledOn(s)
         /\ Len(got[s]) = n
         /\ \E r \in Subs \ {s} : r \in Range(targets) /\ client[r] = "subscribed")
        ~> (pcB # "send" \/ Len(got[s]) > n)

\* seq is the first Len(seq) emissions: 1, 2, 3, ...
IsPrefixOfEmissions(seq) == \A i \in 1..Len(seq) : seq[i] = i

\* seq is a run of consecutive emissions: k, k+1, k+2, ...
IsSegmentOfEmissions(seq) ==
    /\ \A i \in 1..Len(seq) : seq[i] \in 1..nEmitted
    /\ \A i \in 1..(Len(seq) - 1) : seq[i + 1] = seq[i] + 1

\* C8 (as claimed): what each subscriber has been delivered is a prefix of
\* the merger's emission sequence.
C8_DeliveredIsPrefix == \A s \in Subs : IsPrefixOfEmissions(got[s])

\* C8 (amended): what each subscriber has been delivered, followed by what is
\* buffered for it, is a run of consecutive emissions in the merger's order:
\* nothing reordered, duplicated or skipped.
C8_DeliveredIsSegment == \A s \in Subs : IsSegmentOfEmissions(got[s] \o chan[s])

\* C8's case: a subscriber that joined after the first emission has been
\* delivered several Summaries and has more buffered.
C8_Witness ==
    \E s \in Subs :
        /\ Len(got[s]) >= 2
        /\ got[s][1] > 1
        /\ chan[s] # <<>>

\* The process is over: main has returned.
Exited == pcMain = "exited"

\* C9 (as claimed): after a shutdown message is broadcast every task returns,
\* the join completes and the entrypoint terminates.
C9_ShutdownTerminates == shutdownSent ~> Exited

\* C10 (as claimed): each adapter's run returns once shutdown is signalled,
\* whatever its upstream websocket does.
C10_AdapterReturnsOnShutdown ==
    \A a \in Adapters : shutdownSent ~> (pcAdapter[a] = "done")

\* ---------------------------------------------------- claims on the adapters

\* C11 (as claimed): an adapter whose send of a decoded Summary failed,
\* because the receiver is dropped, has stopped reading and returned.
C11_SendFailureEndsAdapter ==
    \A a \in Adapters : adapterLog[a] = "send_failed" => pcAdapter[a] = "done"

\* The kinds of bad frame: undecodable JSON, an unrecognised event, a level
\* with a field that is no number, a level with fewer than two elements.
MalformedKinds == {"not_json", "unknown_event", "bad_number", "short_level"}

\* C12 (as claimed): whatever kind of bad frame an adapter was last given, it
\* dropped the frame: no Summary sent, no panic.
C12_BadFrameDropped ==
    \A a \in Adapters : lastKind[a] \in MalformedKinds => adapterLog[a] = "dropped"

\* ------------------------------------------------- claims on the entrypoint

\* C13 (as claimed): an adapter whose websocket handshake failed has returned
\* an error value, and the process has not been aborted.
C13_ConnectFailureSurfaced ==
    \A a \in Adapters :
        adapterLog[a] = "refused" => (pcAdapter[a] = "failed" /\ pcMain # "panicked")

\* C14 (as claimed): once a task of run_server has returned an error at run
\* time, a shutdown message is broadcast.
C14_FatalErrorBroadcasts ==
    (\E a \in Adapters : pcAdapter[a] = "failed") ~> shutdownSent

\* The arguments main starts with hold a startup configuration error.
BadConfig == pcMain = "parse_cli" /\ (~SymbolTryFrom(symbolText).ok \/ ~addressOk)

\* C15 (as claimed): with an unparsable --symbol or --address main returns
\* an error, with no interrupt needed.
C15_ConfigErrorFails == BadConfig ~> (pcMain = "failed")

\* C19 (as claimed): a Symbol that parsing returned has distinct base and
\* quote.
C19_SymbolSidesDistinct == symbol.ok => symbol.base # symbol.quote

\* C20 (as claimed): parsing a text with no '/' fails with InvalidPair, and
\* so does parsing a text with a '/' and a side that is no asset code.
C20_FailsWithInvalidPair ==
    pcMain # "parse_cli" =>
        /\ find(symbolText) = 0 => symbol = SymbolErr("InvalidPair")
        /\ (find(symbolText) # 0 /\ ~symbol.ok) => symbol.err = "InvalidPair"

\* ---------------------------------------------------- claims: conversions

\* Whether text spells code, each letter in upper or lower case.
IsSpelling(text, code) ==
    /\ Len(text) = Len(code)
    /\ \A i \in 1..Len(code) : text[i] \in {code[i], ToUpperChar(code[i])}

\* C21: Asset parsing is case-insensitive: every upper/lower-case spelling of
\* each of the ten recognised codes parses to that code's Asset, and a text
\* that spells none of them fails with InvalidAsset.
C21_AssetCaseInsensitive ==
    assetResult # NoSymbol =>
        /\ \A p \in AssetCodes :
              IsSpelling(typeText, p[1]) => assetResult = SymbolOk(p[2], "")
        /\ (\A p \in AssetCodes : ~IsSpelling(typeText, p[1]))
              => assetResult = SymbolErr("InvalidAsset")

\* C22: parsing "B/Q", in any letter case, for recognised codes B and Q
\* succeeds, and formatting the Symbol gives the lowercase code of B followed
\* by the lowercase code of Q, the same in both adapters.
C22_ParseThenFormat ==
    \A b \in AssetCodes : \A q \in AssetCodes :
        LET pos == find(typeText)
        IN (/\ pos > 0
            /\ IsSpelling(SubSeq(typeText, 1, pos - 1), b[1])
            /\ IsSpelling(SubSeq(typeText, pos + 1, Len(typeText)), q[1])
            /\ symbolResult # NoSymbol)
           => /\ symbolResult = SymbolOk(b[2], q[2])
              /\ \A a \in Adapters :
                    formatted[a] # <<>> => formatted[a] = b[1] \o q[1]

\* "ETH/BTC" has been parsed and both adapters have formatted it.
C22_Witness ==
    /\ typeText = <<"E", "T", "H", "/", "B", "T", "C">>
    /\ symbolResult.ok
    /\ \A a \in Adapters : formatted[a] = <<"e", "t", "h", "b", "t", "c">>

\* ------------------------------------------------- claims: merger's input

\* The book after the Summaries of queue have been merged, in order, into
\* book.
RECURSIVE BookAfter(_, _)
BookAfter(book, queue) ==
    IF queue = <<>> THEN book
    ELSE LET r == process_summary(book.bids, book.asks, Head(queue).summary)
         IN BookAfter([bids |-> r.bids, asks |-> r.asks], Tail(queue))

C27_SendFailureKeepsMerging ==
    [][/\ (MergerStepped /\ pcB \in {"done", "cancelled"}) =>
            LET r == process_summary(bids, asks, Head(inputQueue).summary)
            IN /\ bids' = r.bids
               /\ asks' = r.asks
               /\ nSent' = nSent
               /\ lastSent' = lastSent
               /\ ~mergerPanicked'
               /\ pcMerger' = "running"
       /\ (pcMerger = "running" /\ pcMerger' # "running") =>
            \/ shutdownSent
            \/ inputQueue = <<>> /\ \A a \in Adapters : pcAdapter[a] = "done"
      ]_vars

\* Two Summaries have been merged after the fan-out receiver was dropped:
\* neither was sent, the book holds levels of both, the merger still runs.
C27_Witness ==
    /\ pcB = "done"
    /\ pcMerger = "running"
    /\ nReceived = 2
    /\ nSent = 0
    /\ \A e \in Exchanges : Tagged(bids, e) # <<>>

\* ------------------------------------------- claims: truncation and merge

\* How many times x occurs in seq.
Occurrences(seq, x) == Cardinality({i \in 1..Len(seq) : seq[i] = x})

\* Every level of part is in whole, as many times at least.
KeepsEvery(whole, part) ==
    \A x \in Range(part) : Occurrences(whole, x) >= Occurrences(part, x)

\* C24: truncation applies to the output only: the book holds every level of
\* each exchange's latest Summary, whatever the depth, and the Summary sent
\* after a step is the first min(depth, length) bids and asks of the book as
\* the step left it, in the book's order.
C24_TruncationOnlyOnOutput ==
    /\ \A e \in Exchanges :
          /\ KeepsEvery(bids, latest[e].bids)
          /\ KeepsEvery(asks, latest[e].asks)
    /\ nSent > 0 =>
          /\ lastSent.bids
                = [i \in 1..(IF depth < Len(bids) THEN depth ELSE Len(bids))
                     |-> WireLevel(bids[i])]
          /\ lastSent.asks
                = [i \in 1..(IF depth < Len(asks) THEN depth ELSE Len(asks))
                     |-> WireLevel(asks[i])]

\* Three asks at two prices are kept in the book at depth 2, and two were sent.
C24_Witness ==
    /\ depth = 2
    /\ Len(asks) = 3
    /\ asks[1].price < asks[3].price
    /\ Len(lastSent.asks) = 2
    /\ nSent > 0

\* Whether x comes strictly before y on a side: a higher bid, a lower ask.
StrictlyAhead(x, y, side) ==
    IF side = "bids" THEN x.price > y.price ELSE x.price < y.price

\* The ordered merge of two sorted sides in which, at equal price, the
\* incoming level goes before the existing one.
RECURSIVE OrderedMerge(_, _, _)
OrderedMerge(existing, incoming, side) ==
    IF existing = <<>> THEN incoming
    ELSE IF incoming = <<>> THEN existing
    ELSE IF StrictlyAhead(Head(existing), Head(incoming), side)
    THEN <<Head(existing)>> \o OrderedMerge(Tail(existing), incoming, side)
    ELSE <<Head(incoming)>> \o OrderedMerge(existing, Tail(incoming), side)

\* seq without the levels of exchange e.
Without(seq, e) == SelectSeq(seq, LAMBDA l : l.exchange # e)

\* The exchange a non-empty Summary comes from.
SourceOf(s) == IF s.bids # <<>> THEN s.bids[1].exchange ELSE s.asks[1].exchange

\* C26 (as claimed): a step that merges a sorted, non-empty Summary of
\* exchange E into a sorted book leaves, on each side, the ordered merge of
\* the existing side without E's levels and the incoming side, the incoming
\* level first wherever an existing and an incoming level have the same price.
C26_MergeAndTieBreak ==
    [][(/\ MergerStepped
        /\ received' # EmptySummary
        /\ NonIncreasing(bids) /\ NonDecreasing(asks)
        /\ SortedSummary(received'))
       => LET e == SourceOf(received')
          IN /\ bids' = OrderedMerge(Without(bids, e), received'.bids, "bids")
             /\ asks' = OrderedMerge(Without(asks, e), received'.asks, "asks")]_vars

\* ------------------------------------------------ claims: adapter frames

\* Frames that carry no order book, and frames whose book the conversion
\* rejects. bitstamp converts the first depth levels of each side only
\* (bitstamp.rs:126-127), so it looks at every level of a frame when depth is
\* MaxRawLen or more.
NotDataKinds == {"read_error", "not_json", "unknown_event", "succeeded"}
RejectedKinds(a) ==
    IF a = "binance" \/ depth >= MaxRawLen THEN {"bad_number", "short_level"} ELSE {}

\* C25: while the receiver of the merger's input lives, a closure call on a
\* well-formed order-book frame puts exactly one Summary on the channel, a call
\* on an acknowledgement, an undecodable frame or a frame whose levels do not
\* convert puts none, and no call puts more than one.
C25_OneSummaryPerDataFrame ==
    [][\A a \in Adapters :
         (framesRead'[a] = framesRead[a] + 1 /\ ~rxDropped) =>
            /\ lastKind'[a] = "good" => inQueue' = inQueue + 1
            /\ lastKind'[a] \in NotDataKinds \cup RejectedKinds(a) => inQueue' = inQueue
            /\ inQueue' \in {inQueue, inQueue + 1}
            /\ inQueue' = inQueue + 1 <=> adapterLog'[a] = "sent"]_vars

\* bitstamp has sent the Summary of its second frame, its first having been
\* taken from the channel, and binance has dropped a frame that is no JSON.
C25_Witness ==
    /\ ~rxDropped
    /\ framesRead["bitstamp"] = 2
    /\ lastKind["bitstamp"] = "good" /\ adapterLog["bitstamp"] = "sent"
    /\ framesRead["binance"] = 1
    /\ lastKind["binance"] = "not_json" /\ adapterLog["binance"] = "dropped"
    /\ inQueue = 1

\* ------------------------------------------- claims: targets and its lock

\* C28: in a broadcast pass every send to a subscriber whose receiver lives
\* succeeds and is recorded, every send to one whose receiver is gone fails
\* and is not; the pass leaves in targets the subscribers it started with
\* whose send succeeded, in their order. A subscriber still connected at the
\* end of the pass is kept and has the Summary; an evicted one is gone and
\* never got it.
C28_TargetsAfterPass ==
    [][/\ (pcB = "send" /\ bIdx' = bIdx + 1) =>
            LET s == targets[bIdx]
            IN IF client[s] = "subscribed"
               THEN /\ bResp' = Append(bResp, s)
                    /\ chan'[s] = Append(chan[s], bSummary)
               ELSE /\ bResp' = bResp
                    /\ chan' = chan
       /\ (pcB = "send" /\ pcB' = "select") =>
            /\ targets' = SelectSeq(targets, LAMBDA s : s \in Range(bResp))
            /\ \A s \in Range(targets) :
                  client[s] = "subscribed" =>
                     /\ s \in Range(targets')
                     /\ bSummary \in Range(chan[s]) \cup Range(got[s])
            /\ \A s \in Range(targets) \ Range(targets') :
                  /\ client[s] = "gone"
                  /\ bSummary \notin Range(got[s])
      ]_vars

\* A pass has evicted subscriber 1, which had been delivered a Summary and
\* then disconnected, and has kept subscriber 2, which has the pass's Summary.
C28_Witness ==
    /\ pcB = "select"
    /\ targets = <<2>>
    /\ client[1] = "gone" /\ got[1] # <<>>
    /\ client[2] = "subscribed"
    /\ nEmitted \in Range(chan[2]) \cup Range(got[2])
    /\ nEmitted >= 2

\* C29: a subscription request made after the registrar has returned is
\* answered with an error: no sender reaches the registrar, no stream is
\* handed out and targets stays as it is. A request made while the registrar
\* runs puts exactly one sender, its own, on the registration channel, leaves
\* targets as it is, and gets the stream of the matching receiver, whose
\* channel starts empty.
C29_SubscribeAfterClose ==
    [][\A s \in Subs :
         (client[s] = "idle" /\ client'[s] # "idle") =>
            /\ targets' = targets
            /\ IF pcR \in {"select", "lock"}
               THEN /\ client'[s] = "subscribed"
                    /\ regQueue' = Append(regQueue, s)
                    /\ chan'[s] = <<>>
               ELSE /\ client'[s] = "rejected"
                    /\ regQueue' = regQueue
                    /\ s \notin Range(targets) /\ rPending # s]_vars

\* After a shutdown the registrar has returned while the gRPC server still
\* serves: the first request, made earlier, was registered, the second has
\* been rejected.
C29_Witness ==
    /\ pcR = "done"
    /\ client[1] = "subscribed" /\ 1 \in Range(targets)
    /\ client[2] = "rejected" /\ 2 \notin Range(targets)

\* C30 (as claimed): the targets lock is always released again: a registrar
\* that waits for it with a new subscriber gets it and appends the
\* subscriber, whether or not the subscribers in targets read their streams.
C30_RegistrarGetsLock ==
    \A s \in Subs :
        (pcR = "lock" /\ rPending = s) ~> (s \in Range(targets) /\ pcR = "select")

\* ------------------------------------------------- claims: the final wait

\* C31 (as claimed): once run_server has returned, main's last recv on the
\* shutdown channel completes and main exits, with no interrupt needed, also
\* when no shutdown message was ever broadcast.
C31_FinalWaitCompletes == (pcMain = "final_recv") ~> Exited

\* --------------------------------------------- claims: bitstamp's depth

\* C32: every Summary bitstamp has sent has at most depth bids and at most
\* depth asks: each side is the first min(depth, length) entries of that
\* side of the frame, converted, in the frame's order.
C32_BitstampWithinDepth ==
    \A i \in 1..Len(inputQueue) :
        LET s == inputQueue[i].summary
            n(side) == IF depth < Len(side) THEN depth ELSE Len(side)
            level(raw) == Level("bitstamp", ParsedF64(raw[1]), ParsedF64(raw[2]))
        IN /\ inputQueue[i].exchange = "bitstamp"
           /\ Len(s.bids) <= depth /\ Len(s.asks) <= depth
           /\ s.bids = [j \in 1..n(dataFrame.bids) |-> level(dataFrame.bids[j])]
           /\ s.asks = [j \in 1..n(dataFrame.asks) |-> level(dataFrame.asks[j])]

\* At depth 2 a frame with three asks, the first two at different prices, has
\* been sent as a Summary of two asks.
C32_Witness ==
    /\ depth = 2
    /\ Len(dataFrame.asks) = 3
    /\ dataFrame.asks[1] # dataFrame.asks[2]
    /\ Len(dataFrame.bids) = 1
    /\ inputQueue # <<>>
    /\ Len(inputQueue[1].summary.asks) = 2

\* ------------------------------------------- claims: the merger's output

\* C33 (as claimed): the Summaries sent correspond one to one, in order, to
\* the non-empty Summaries received: a step sends exactly one Summary when its
\* input is non-empty and none otherwise, and the one sent is the truncation
\* to depth of the book the step leaves, which holds every level of the input.
C33_OneOutputPerNonEmptyInput ==
    [][MergerStepped =>
         IF received' = EmptySummary
         THEN nSent' = nSent
         ELSE /\ nSent' = nSent + 1
              /\ lastSent'.bids
                    = [i \in 1..(IF depth < Len(bids') THEN depth ELSE Len(bids'))
                         |-> WireLevel(bids'[i])]
              /\ lastSent'.asks
                    = [i \in 1..(IF depth < Len(asks') THEN depth ELSE Len(asks'))
                         |-> WireLevel(asks'[i])]
              /\ KeepsEvery(bids', received'.bids)
              /\ KeepsEvery(asks', received'.asks)]_vars

\* C34: a step on a non-empty Summary from exchange E leaves, on both sides,
\* the levels of every other exchange as they were, with the same price and
\* quantity and in the same relative order; the levels that left the book
\* or entered it are all tagged E.
C34_OtherExchangesUntouched ==
    [][(MergerStepped /\ received' # EmptySummary) =>
         /\ Without(bids', SourceOf(received')) = Without(bids, SourceOf(received'))
         /\ Without(asks', SourceOf(received')) = Without(asks, SourceOf(received'))
         /\ \A l \in Range(bids') \cup Range(asks') :
               l.exchange \in Exchanges]_vars

\* A book with levels of both exchanges on both sides, just after a Summary
\* from bitstamp with levels on both sides replaced bitstamp's levels.
C34_Witness ==
    /\ nReceived = 3
    /\ received.bids # <<>>
    /\ received.asks # <<>>
    /\ SourceOf(received) = "bitstamp"
    /\ Without(bids, "bitstamp") # <<>>
    /\ Without(asks, "bitstamp") # <<>>
    /\ Without(bids, "binance") = received.bids
    /\ Without(asks, "binance") = received.asks
    /\ latest["bitstamp"] = received
    /\ replayed = FALSE

\* The exchange one call of the merge helper takes from its incoming side
\* (merger.rs:144); a call with an empty incoming side has none.
HelperSource(incoming) ==
    IF incoming = <<>> THEN None ELSE incoming[1].exchange

\* The length the claim gives the helper's result: the existing levels less
\* those tagged with the call's source exchange, plus the incoming ones.
ClaimedLength(existing, incoming) ==
    Len(existing) - CountExchange(existing, HelperSource(incoming)) + Len(incoming)

C35_SubscribedIsAppended ==
    \A s \in Subs :
        (client[s] = "subscribed" /\ s \notin Range(targets))
        ~> (s \in Range(targets) \/ client[s] = "gone")

====
